---- MODULE Spec2Model ----
(***************************************************************************)
(* Tides 2 for Disting NT (src/tides.cpp): the per-sample synthesis state  *)
(* machine of step(), with construct() and the host's parameter changes.   *)
(*                                                                         *)
(* Numbers.  The program computes in float.  Here a float x is the integer *)
(* 1000*x (One == 1000 is 1.0f), so the literal 0.999f is written 999 and  *)
(* 0.005f is written 5.  Sums, differences and products by an integer      *)
(* literal are exact; a product or a quotient of two floats is rounded to  *)
(* the nearest thousandth (Mul, Div), as float rounds to the nearest       *)
(* representable value.                                                    *)
(***************************************************************************)
EXTENDS Integers, Sequences, FiniteSets, TLC

One == 1000

Round(n, d) == (2 * n + d) \div (2 * d)
Mul(a, b) == Round(a * b, One)
Div(a, b) == Round(a * One, b)
Abs(x) == IF x < 0 THEN -x ELSE x

RAMP_AD == 0
RAMP_CYCLE == 1
RAMP_AR == 2

OUT_GATES == 0
OUT_AMPLITUDE == 1
OUT_SLOPE_PHASE == 2
OUT_FREQUENCY == 3

RampModes == {RAMP_AD, RAMP_CYCLE, RAMP_AR}
OutputModes == {OUT_GATES, OUT_AMPLITUDE, OUT_SLOPE_PHASE, OUT_FREQUENCY}

\* numFrames = numFramesBy4 * 4: a block is a whole number of groups of four
\* frames, and the parameters are read once per block.
FramesPerBlock == 4

\* const float smoothCoeff = 0.005f
smoothCoeff == 5

\* .def of the four attenuverters "Shape Atten" .. "Shift Atten", in percent
AttenDefault == 100

(***************************************************************************)
(* DSP helper functions                                                    *)
(***************************************************************************)
clamp(x, lo, hi) == IF x < lo THEN lo ELSE (IF x > hi THEN hi ELSE x)

\* Mutant of smoothParam: the difference is taken the wrong way round.
smoothParamAway(current, target, coeff) == current + Mul(coeff, current - target)

smoothParam(current, target, coeff) == current + Mul(coeff, target - current)

\* Mutant of applySlope: the falling part is not divided by its width.
applySlopeFlatFall(phase, slope) ==
    LET pw == clamp(slope, 1, 999)
    IN  IF phase < pw
        THEN Div(phase, pw)
        ELSE One - Div(phase - pw, One)

applySlope(phase, slope) ==
    LET pw == clamp(slope, 1, 999)
    IN  IF phase < pw
        THEN Div(phase, pw)
        ELSE One - Div(phase - pw, One - pw)

Cube(x) == Mul(Mul(x, x), x)

\* Mutant of applyShape: the logarithmic curve lacks its "1 -".
applyShapeLogSlip(x, shape) ==
    IF shape < 500
    THEN LET amount == One - shape * 2
             curved == Cube(x)
         IN  x + Mul(amount, curved - x)
    ELSE LET amount == (shape - 500) * 2
             curved == Cube(One - x)
         IN  x + Mul(amount, curved - x)

applyShape(x, shape) ==
    IF shape < 500
    THEN LET amount == One - shape * 2
             curved == Cube(x)
         IN  x + Mul(amount, curved - x)
    ELSE LET amount == (shape - 500) * 2
             curved == One - Cube(One - x)
         IN  x + Mul(amount, curved - x)

\* Mutant of FoldBody: the lower reflection adds the value instead of
\* subtracting it.
FoldBodySlip(folded) ==
    LET a == IF folded > One THEN 2 * One - folded ELSE folded
    IN  IF a < -One THEN -2 * One + a ELSE a

\* body of the fold loop:
\* if (folded > 1.0f) folded = 2.0f - folded;
\* if (folded < -1.0f) folded = -2.0f - folded;
FoldBody(folded) ==
    LET a == IF folded > One THEN 2 * One - folded ELSE folded
    IN  IF a < -One THEN -2 * One - a ELSE a

\* while (folded > 1.0f || folded < -1.0f) { ... }
RECURSIVE Fold(_)
Fold(folded) ==
    IF folded > One \/ folded < -One
    THEN Fold(FoldBody(folded))
    ELSE folded

\* applySmoothness returns the value and leaves the new filter state in
\* lpState (a reference parameter): here a record [val, lp].
applySmoothness(x, smoothness, lp) ==
    IF smoothness < 500
    THEN LET cutoff == smoothness * 2
             coeff == 10 + Mul(cutoff, 490)
             nlp == lp + Mul(coeff, x - lp)
         IN  [val |-> nlp, lp |-> nlp]
    ELSE LET foldAmount == (smoothness - 500) * 2
             gain == One + foldAmount * 3
         IN  [val |-> IF foldAmount > 0 THEN Fold(Mul(x, gain)) ELSE x,
              lp |-> lp]

\* Mutant of Wrap: "if" in place of "while", one subtraction at most.
WrapOnce(p) == IF p >= One THEN p - One ELSE p

\* while (p >= 1.0f) p -= 1.0f;
RECURSIVE Wrap(_)
Wrap(p) == IF p >= One THEN Wrap(p - One) ELSE p

(***************************************************************************)
(* State                                                                   *)
(***************************************************************************)
VARIABLES
    v,          \* alg->v[]: the host-owned parameters the engine reads
    dtc,        \* _TidesDTC
    lpState,    \* static float lpState[4] of step()
    frame,      \* index of the next frame within its group of four
    budget,     \* samples left to process (-1: unlimited)
    sampled,    \* the last step was a processed sample under the current v
    in,         \* the bus values and phase increment of that sample
    eff,        \* shape, slope, smoothness, shift used by that sample
    gate,       \* gate of the most recent sample of this instance
    rising,     \* rising of that sample
    ramp,       \* ramp of that sample
    out,        \* out1Val .. out4Val of that sample
    apexRelease, \* history: AttackRelease release in progress that left 0.5
    peer,       \* a second instance, not running: its v, its DTC memory and
                \* the lpState it left when it last returned from step()
    calc,       \* argument and result of a helper function evaluated alone
    before0     \* history: phase[0] when the most recent sample began

vars == <<v, dtc, lpState, frame, budget, sampled, in, eff, gate, rising,
          ramp, out, apexRelease, peer, calc, before0>>

\* .def of parameters[]: no input bus selected, Cycle, Slope/Phase, 50 %
DefaultParams ==
    [RampMode |-> RAMP_CYCLE, OutputMode |-> OUT_SLOPE_PHASE,
     TrigInput |-> 0, ShapeInput |-> 0, SlopeInput |-> 0,
     SmoothInput |-> 0, ShiftInput |-> 0,
     Shape |-> 50, Slope |-> 50, Smoothness |-> 50, Shift |-> 50]

\* memset(dtc, 0, sizeof(_TidesDTC)); the four smooth_* = 0.5f
InitDTC ==
    [phase |-> [ch \in 0..3 |-> 0],
     gate_high |-> FALSE, prev_gate_high |-> FALSE,
     envelope_running |-> FALSE, envelope_phase |-> 0,
     smooth_freq |-> 0,
     smooth_shape |-> 500, smooth_slope |-> 500,
     smooth_smoothness |-> 500, smooth_shift |-> 500]

NoInput == [trig |-> 0, phaseInc |-> 0, shape |-> 0, slope |-> 0,
            smooth |-> 0, shift |-> 0]
NoEff == [shape |-> 500, slope |-> 500, smoothness |-> 500, shift |-> 500]
NoOut == [k \in 1..4 |-> 0]

\* a second instance as construct() leaves it
NoPeer == [v |-> DefaultParams, dtc |-> InitDTC,
           lp |-> [ch \in 0..3 |-> 0]]

NoCalc == [fn |-> "none"]

EngineInit(b) ==
    /\ v = DefaultParams
    /\ dtc = InitDTC
    /\ lpState = [ch \in 0..3 |-> 0]
    /\ frame = 0
    /\ budget = b
    /\ sampled = FALSE
    /\ in = NoInput
    /\ eff = NoEff
    /\ gate = FALSE
    /\ rising = FALSE
    /\ ramp = 0
    /\ out = NoOut
    /\ apexRelease = FALSE
    /\ peer = NoPeer
    /\ before0 = 0

InitWith(b) == EngineInit(b) /\ calc = NoCalc

(***************************************************************************)
(* step(): the pieces of the per-sample loop body                          *)
(***************************************************************************)

\* gate = trigIn[i] > 1.0f; rising = gate && !prev_gate_high; the previous
\* level is stored only when the trigger input is connected.
GateEdge(trigConn, trig, prev) ==
    IF trigConn
    THEN LET g == trig > One
         IN  [gate |-> g, rising |-> g /\ ~prev, prev |-> g]
    ELSE [gate |-> FALSE, rising |-> FALSE, prev |-> prev]

\* Mutant of Modulate: the modulated value is not clamped.
ModulateUnclamped(smoothed, conn, cv) ==
    IF conn
    THEN smoothed + Mul(Mul(cv, 100), AttenDefault * 10)
    ELSE smoothed

\* shape = clamp(shape + shapeIn[i] * 0.1f * shapeAtten, 0.0f, 1.0f)
Modulate(smoothed, conn, cv) ==
    IF conn
    THEN clamp(smoothed + Mul(Mul(cv, 100), AttenDefault * 10), 0, One)
    ELSE smoothed

\* Mutant of UpdateAD: the phase is clamped at 1.0 but envelope_running is
\* not cleared.
UpdateADKeepRunning(p0, running, rs, phaseInc) ==
    LET p1 == IF rs THEN 0 ELSE p0
        run1 == rs \/ running
        p2 == p1 + phaseInc
    IN  IF run1
        THEN [phase |-> IF p2 >= One THEN One ELSE p2, running |-> TRUE]
        ELSE [phase |-> p1, running |-> FALSE]

\* case RAMP_AD
UpdateAD(p0, running, rs, phaseInc) ==
    LET p1 == IF rs THEN 0 ELSE p0
        run1 == rs \/ running
        p2 == p1 + phaseInc
    IN  IF run1
        THEN IF p2 >= One
             THEN [phase |-> One, running |-> FALSE]
             ELSE [phase |-> p2, running |-> TRUE]
        ELSE [phase |-> p1, running |-> FALSE]

\* case RAMP_CYCLE
UpdateCycle(p0, running, rs, phaseInc) ==
    [phase |-> Wrap((IF rs THEN 0 ELSE p0) + phaseInc), running |-> running]

\* attackSpeed = phaseInc / clamp(slope, 0.01f, 0.99f)
AttackSpeed(phaseInc, slope) == Div(phaseInc, clamp(slope, 10, 990))

\* releaseSpeed = phaseInc / clamp(1.0f - slope, 0.01f, 0.99f)
ReleaseSpeed(phaseInc, slope) == Div(phaseInc, clamp(One - slope, 10, 990))

\* Mutant of UpdateAR: a gate-high sample that finds the phase past the
\* apex replays the attack from 0.
UpdateARReplay(p0, running, gt, trigConn, phaseInc, slope) ==
    IF gt \/ ~trigConn
    THEN IF ~trigConn
         THEN [phase |-> Wrap(p0 + phaseInc), running |-> running]
         ELSE LET p == (IF p0 > 500 THEN 0 ELSE p0)
                          + AttackSpeed(phaseInc, slope)
              IN  [phase |-> IF p > 500 THEN 500 ELSE p, running |-> running]
    ELSE LET p == p0 + ReleaseSpeed(phaseInc, slope)
         IN  [phase |-> IF p > One THEN One ELSE p, running |-> running]

\* case RAMP_AR
UpdateAR(p0, running, gt, trigConn, phaseInc, slope) ==
    IF gt \/ ~trigConn
    THEN IF ~trigConn
         THEN [phase |-> Wrap(p0 + phaseInc), running |-> running]
         ELSE LET p == p0 + AttackSpeed(phaseInc, slope)
              IN  [phase |-> IF p > 500 THEN 500 ELSE p, running |-> running]
    ELSE LET p == p0 + ReleaseSpeed(phaseInc, slope)
         IN  [phase |-> IF p > One THEN One ELSE p, running |-> running]

\* switch (rampMode)
UpdatePhase(rampMode, p0, running, gt, rs, trigConn, phaseInc, slope) ==
    CASE rampMode = RAMP_AD -> UpdateAD(p0, running, rs, phaseInc)
      [] rampMode = RAMP_CYCLE -> UpdateCycle(p0, running, rs, phaseInc)
      [] rampMode = RAMP_AR ->
             UpdateAR(p0, running, gt, trigConn, phaseInc, slope)
      [] OTHER -> [phase |-> p0, running |-> running]

\* raw ramp from the raw phase
RampOf(rampMode, rawPhase, slope) ==
    IF rampMode = RAMP_AR
    THEN IF rawPhase <= 500
         THEN rawPhase * 2
         ELSE One - (rawPhase - 500) * 2
    ELSE applySlope(rawPhase, slope)

\* val = (pr * 2.0f - 1.0f) * 5.0f  or  pr * 8.0f
Scale(rampMode, pr) ==
    IF rampMode = RAMP_CYCLE THEN (pr * 2 - One) * 5 ELSE pr * 8

\* Mutant of RenderGates: the end-of-ramp gate uses the Cycle rule (phase just
\* wrapped) in every ramp mode.
RenderGatesEOR(rampMode, rawPhase, rmp, processed, slope, shift, phaseInc) ==
    LET level == shift * 2 - One
        o1c == Mul((processed * 2 - One) * 5, Abs(level))
        out1Val == IF rampMode = RAMP_CYCLE
                   THEN (IF level < 0 THEN -o1c ELSE o1c)
                   ELSE Mul(processed * 8, level)
        out2Val == IF rampMode = RAMP_CYCLE
                   THEN (rmp * 2 - One) * 5
                   ELSE rmp * 8
        pastAttack == IF rampMode = RAMP_AR
                      THEN rawPhase >= 500
                      ELSE rawPhase >= slope
        atEnd == rawPhase < phaseInc * 2
    IN  <<out1Val, out2Val,
          IF pastAttack THEN 8 * One ELSE 0,
          IF atEnd THEN 8 * One ELSE 0>>

\* case OUT_GATES
RenderGates(rampMode, rawPhase, rmp, processed, slope, shift, phaseInc) ==
    LET level == shift * 2 - One
        o1c == Mul((processed * 2 - One) * 5, Abs(level))
        out1Val == IF rampMode = RAMP_CYCLE
                   THEN (IF level < 0 THEN -o1c ELSE o1c)
                   ELSE Mul(processed * 8, level)
        out2Val == IF rampMode = RAMP_CYCLE
                   THEN (rmp * 2 - One) * 5
                   ELSE rmp * 8
        pastAttack == IF rampMode = RAMP_AR
                      THEN rawPhase >= 500
                      ELSE rawPhase >= slope
        atEnd == IF rampMode = RAMP_CYCLE
                 THEN rawPhase < phaseInc * 2
                 ELSE rawPhase >= 999
    IN  <<out1Val, out2Val,
          IF pastAttack THEN 8 * One ELSE 0,
          IF atEnd THEN 8 * One ELSE 0>>

\* Mutant of AmplitudeGains: the gains are not clamped.
AmplitudeGainsUnclamped(pos) ==
    <<One - pos, One - Abs(pos - One), One - Abs(pos - 2 * One), pos - 2 * One>>

\* gain1 .. gain4 of case OUT_AMPLITUDE, pos = shift * 3.0f
AmplitudeGains(pos) ==
    <<clamp(One - pos, 0, One),
      clamp(One - Abs(pos - One), 0, One),
      clamp(One - Abs(pos - 2 * One), 0, One),
      clamp(pos - 2 * One, 0, One)>>

\* case OUT_AMPLITUDE
RenderAmplitude(rampMode, processed, shift) ==
    LET signal == Scale(rampMode, processed)
        pos == shift * 3
        gain == AmplitudeGains(pos)
    IN  <<Mul(signal, gain[1]), Mul(signal, gain[2]),
          Mul(signal, gain[3]), Mul(signal, gain[4])>>

\* case OUT_SLOPE_PHASE: channel ch of the loop, lp the value of lpState[ch]
\* when the loop reaches it
SlopePhaseChannel(ch, rawPhase, shape, slope, smoothness, shift, lp) ==
    LET phaseOffset == Mul(ch * shift, 250)
        p == Wrap(rawPhase + phaseOffset)
        r == applySlope(p, slope)
        s == applyShape(r, shape)
    IN  applySmoothness(s, smoothness, lp)

\* static const float ratios[4][4]
ratios ==
    <<  <<1000, 500, 250, 125>>,
        <<1000, 750, 500, 250>>,
        <<1000, 667, 500, 333>>,
        <<1000, 2000, 3000, 4000>>  >>

\* ratioSet = (int)(shift * 3.99f); ratioSet = clamp(ratioSet, 0, 3)
RatioSet(shift) == clamp((shift * 399) \div (100 * One), 0, 3)

\* case OUT_FREQUENCY: the new phase[ch]; p is phase[ch] when the loop
\* reaches it (for ch = 0, after the ramp-mode update)
FrequencyPhase(ch, p, rs, phaseInc, shift) ==
    LET chPhaseInc == Mul(phaseInc, ratios[RatioSet(shift) + 1][ch + 1])
    IN  Wrap((IF rs THEN 0 ELSE p) + chPhaseInc)

FrequencyChannel(newPhase, shape, slope, smoothness, lp) ==
    LET r == applySlope(newPhase, slope)
        s == applyShape(r, shape)
    IN  applySmoothness(s, smoothness, lp)

(***************************************************************************)
(* Actions                                                                 *)
(***************************************************************************)

\* construct(): a new instance over the DTC memory.  The static lpState of
\* step() is not touched.  The parameters start from their defaults and the
\* new instance has processed no sample yet.
Construct ==
    /\ frame = 0
    /\ dtc' = InitDTC
    /\ v' = DefaultParams
    /\ sampled' = FALSE
    /\ in' = NoInput
    /\ eff' = NoEff
    /\ gate' = FALSE
    /\ rising' = FALSE
    /\ ramp' = 0
    /\ out' = NoOut
    /\ apexRelease' = FALSE
    /\ before0' = 0
    /\ UNCHANGED <<lpState, frame, budget, peer, calc>>

\* Mutant of SetParams: a parameterChanged() that zeroes the DTC state when
\* the output mode changes.
SetParamsReset(p) ==
    /\ frame = 0
    /\ p # v
    /\ v' = p
    /\ dtc' = IF p.OutputMode # v.OutputMode THEN InitDTC ELSE dtc
    /\ sampled' = FALSE
    /\ in' = NoInput
    /\ eff' = NoEff
    /\ rising' = FALSE
    /\ ramp' = 0
    /\ out' = NoOut
    /\ apexRelease' = FALSE
    /\ before0' = 0
    /\ UNCHANGED <<lpState, frame, budget, gate, peer, calc>>

\* The host writes alg->v[] between two blocks and calls parameterChanged(),
\* which does nothing: the engine state is left as it is.  No sample has
\* been processed under the new parameters yet; gate stays the gate of the
\* most recent sample of this instance.
SetParams(p) ==
    /\ frame = 0
    /\ p # v
    /\ v' = p
    /\ sampled' = FALSE
    /\ in' = NoInput
    /\ eff' = NoEff
    /\ rising' = FALSE
    /\ ramp' = 0
    /\ out' = NoOut
    /\ apexRelease' = FALSE
    /\ before0' = 0
    /\ UNCHANGED <<dtc, lpState, frame, budget, gate, peer, calc>>

\* Mutant of WrittenPhases: the channel loop of Frequency output runs in
\* every output mode.
WrittenPhasesAllModes(outputMode, ph1, fph) == fph

\* phase[0..3] after the sample: ph1 is the array after the ramp-mode switch,
\* which writes phase[0] only; the loop over the four channels that gives
\* fph stands in case OUT_FREQUENCY and nowhere else
WrittenPhases(outputMode, ph1, fph) ==
    IF outputMode = OUT_FREQUENCY THEN fph ELSE ph1

\* One iteration of the per-sample loop of step().  trig and the four cv are
\* the bus values of this frame, phaseInc is cvFreq * inv_sample_rate.
Sample(trig, phaseInc, cvShape, cvSlope, cvSmooth, cvShift) ==
    LET rampMode == v.RampMode
        outputMode == v.OutputMode
        trigConn == v.TrigInput > 0
        \* smooth and modulate
        sShape == smoothParam(dtc.smooth_shape, v.Shape * 10, smoothCoeff)
        sSlope == smoothParam(dtc.smooth_slope, v.Slope * 10, smoothCoeff)
        sSmooth == smoothParam(dtc.smooth_smoothness, v.Smoothness * 10,
                               smoothCoeff)
        sShift == smoothParam(dtc.smooth_shift, v.Shift * 10, smoothCoeff)
        shape == Modulate(sShape, v.ShapeInput > 0, cvShape)
        slope == Modulate(sSlope, v.SlopeInput > 0, cvSlope)
        smoothness == Modulate(sSmooth, v.SmoothInput > 0, cvSmooth)
        shift == Modulate(sShift, v.ShiftInput > 0, cvShift)
        \* gate / trigger
        ge == GateEdge(trigConn, trig, dtc.prev_gate_high)
        \* phase
        up == UpdatePhase(rampMode, dtc.phase[0], dtc.envelope_running,
                          ge.gate, ge.rising, trigConn, phaseInc, slope)
        rawPhase == up.phase
        rmp == RampOf(rampMode, rawPhase, slope)
        shaped == applyShape(rmp, shape)
        main == applySmoothness(shaped, smoothness, lpState[0])
        processed == main.val
        lp1 == [lpState EXCEPT ![0] = main.lp]
        ph1 == [dtc.phase EXCEPT ![0] = rawPhase]
        \* output modes
        sp == [ch \in 0..3 |->
                 SlopePhaseChannel(ch, rawPhase, shape, slope, smoothness,
                                   shift, lp1[ch])]
        fph == [ch \in 0..3 |->
                 FrequencyPhase(ch, ph1[ch], ge.rising, phaseInc, shift)]
        fq == [ch \in 0..3 |->
                 FrequencyChannel(fph[ch], shape, slope, smoothness, lp1[ch])]
        newOut ==
            CASE outputMode = OUT_GATES ->
                   RenderGates(rampMode, rawPhase, rmp, processed, slope,
                               shift, phaseInc)
              [] outputMode = OUT_AMPLITUDE ->
                   RenderAmplitude(rampMode, processed, shift)
              [] outputMode = OUT_SLOPE_PHASE ->
                   [k \in 1..4 |-> Scale(rampMode, sp[k - 1].val)]
              [] outputMode = OUT_FREQUENCY ->
                   [k \in 1..4 |-> Scale(rampMode, fq[k - 1].val)]
              [] OTHER -> NoOut
        newLp ==
            CASE outputMode = OUT_SLOPE_PHASE -> [ch \in 0..3 |-> sp[ch].lp]
              [] outputMode = OUT_FREQUENCY -> [ch \in 0..3 |-> fq[ch].lp]
              [] OTHER -> lp1
        newPhase == WrittenPhases(outputMode, ph1, fph)
    IN  /\ budget # 0
        /\ budget' = IF budget > 0 THEN budget - 1 ELSE budget
        /\ frame' = (frame + 1) % FramesPerBlock
        /\ dtc' = [dtc EXCEPT !.phase = newPhase,
                              !.prev_gate_high = ge.prev,
                              !.envelope_running = up.running,
                              !.smooth_shape = sShape,
                              !.smooth_slope = sSlope,
                              !.smooth_smoothness = sSmooth,
                              !.smooth_shift = sShift]
        /\ lpState' = newLp
        /\ sampled' = TRUE
        /\ in' = [trig |-> trig, phaseInc |-> phaseInc, shape |-> cvShape,
                  slope |-> cvSlope, smooth |-> cvSmooth, shift |-> cvShift]
        /\ eff' = [shape |-> shape, slope |-> slope,
                   smoothness |-> smoothness, shift |-> shift]
        /\ gate' = ge.gate
        /\ rising' = ge.rising
        /\ ramp' = rmp
        /\ out' = newOut
        /\ apexRelease' =
              /\ rampMode = RAMP_AR /\ trigConn /\ ~ge.gate /\ sampled
              /\ \/ gate /\ dtc.phase[0] = 500
                 \/ apexRelease
        /\ before0' = dtc.phase[0]
        /\ UNCHANGED <<v, peer, calc>>

(***************************************************************************)
(* Specification of the phase state machine: every ramp mode, every output *)
(* mode, trigger connected or not; the knobs stay at 50 % and the shift    *)
(* comes from its CV input.                                                *)
(***************************************************************************)

\* bus values of a connected input of this frame; a disconnected one has none
BusValues(conn, S) == IF conn > 0 THEN S ELSE {0}

TrigLevels == {1000, 1001}
PhaseIncs == {100, 1300}
ShiftCVs == {5000}

ParamSpace ==
    { [DefaultParams EXCEPT !.RampMode = rm, !.OutputMode = om,
                            !.TrigInput = t, !.ShiftInput = 1] :
        rm \in RampModes, om \in OutputModes, t \in {0, 1} }

Init == InitWith(-1)

SampleStep ==
    \E trig \in BusValues(v.TrigInput, TrigLevels), phaseInc \in PhaseIncs,
       cvShift \in BusValues(v.ShiftInput, ShiftCVs) :
        Sample(trig, phaseInc, 0, 0, 0, cvShift)

ParamStep == \E p \in ParamSpace : SetParams(p)

Next == Construct \/ ParamStep \/ SampleStep

Spec == Init /\ [][Next]_vars

(***************************************************************************)
(* Properties of the phase state machine (checked under Spec)              *)
(***************************************************************************)
TrigConnected == v.TrigInput > 0

\* C1: after any sequence of processed samples, in every ramp mode and output
\* mode, trigger connected or not, with any positive phase increment, each of
\* phase[0..3] lies in [0,1].
C1_PhaseInUnitInterval ==
    \A ch \in 0..3 : dtc.phase[ch] >= 0 /\ dtc.phase[ch] <= One

\* a sample with an increment above one cycle has been processed in Frequency
\* output mode, where all four accumulators are written
C1_Witness ==
    /\ sampled
    /\ v.OutputMode = OUT_FREQUENCY
    /\ v.RampMode = RAMP_AD
    /\ in.phaseInc > One
    /\ \A ch \in 1..3 : dtc.phase[ch] > 0

\* C2: after every sample processed in AttackDecay ramp mode, phase[0] = 1.0
\* implies that envelope_running is false, whatever the state the sample
\* started from.
C2_StoppedAtOne ==
    (sampled /\ v.RampMode = RAMP_AD /\ dtc.phase[0] = One)
        => ~dtc.envelope_running

\* an AttackDecay sample has left the phase at 1.0 with the trigger connected
C2_Witness ==
    /\ sampled
    /\ v.RampMode = RAMP_AD
    /\ TrigConnected
    /\ dtc.phase[0] = One
    /\ dtc.prev_gate_high

\* C3: in AttackDecay ramp mode, from a rising edge envelope_running stays
\* true on every sample until phase[0] reaches 1.0 and is cleared on that
\* sample; from then on it stays false and phase[0] holds its value on every
\* sample until the next rising edge.
C3_OneShotThenHold ==
    [][ (sampled /\ sampled' /\ v'.RampMode = RAMP_AD) =>
          /\ ((dtc.envelope_running \/ rising') /\ ~dtc'.envelope_running)
                => dtc'.phase[0] = One
          /\ (~dtc.envelope_running /\ ~rising')
                => (~dtc'.envelope_running /\ dtc'.phase[0] = dtc.phase[0])
      ]_vars

\* C4: the gate is high iff the trigger input is connected and its level is
\* above 1.0, and rising is true iff the gate is high on this sample and the
\* gate reported on the preceding sample was not (a sample processed with the
\* trigger input not connected reports gate low).
C4_GateAndRising ==
    [][ sampled' =>
          /\ gate' = (v'.TrigInput > 0 /\ in'.trig > One)
          /\ rising' = (gate' /\ ~gate)
      ]_vars

\* C5: in AttackRelease ramp mode with the trigger connected, phase[0] is at
\* most 0.5 after a gate-high sample and at most 1.0 after a gate-low sample,
\* and it holds at 0.5 (gate high) or 1.0 (gate low) while the gate keeps its
\* state.
C5_AttackReleaseBounds ==
    [][ (sampled' /\ v'.RampMode = RAMP_AR /\ v'.TrigInput > 0) =>
          /\ gate' => dtc'.phase[0] <= 500
          /\ ~gate' => dtc'.phase[0] <= One
          /\ (sampled /\ gate /\ gate' /\ dtc.phase[0] = 500)
                => dtc'.phase[0] = 500
          /\ (sampled /\ ~gate /\ ~gate' /\ dtc.phase[0] = One)
                => dtc'.phase[0] = One
      ]_vars

\* C6: in AttackRelease ramp mode, when the gate was released at phase 0.5 and
\* is re-asserted while phase[0] is strictly between 0.5 and 1.0, the ramp
\* changes from the last gate-low sample to the first gate-high sample by no
\* more than one sample's step (the larger of the attack and release
\* advances, taken on the ramp's scale of two ramp units per phase unit).
C6_SmoothReversal ==
    [][ ( /\ sampled /\ sampled'
          /\ v'.RampMode = RAMP_AR /\ v'.TrigInput > 0
          /\ apexRelease /\ ~gate /\ gate'
          /\ dtc.phase[0] > 500 /\ dtc.phase[0] < One ) =>
          LET a == AttackSpeed(in'.phaseInc, eff'.slope)
              r == ReleaseSpeed(in'.phaseInc, eff'.slope)
              step == 2 * (IF a > r THEN a ELSE r)
          IN  Abs(ramp' - ramp) <= step
      ]_vars

\* C7: in Cycle ramp mode a sample without a rising edge takes phase[0] to
\* (phase[0] + f) mod 1, f the increment of the sample (hence phase0 + N*f
\* mod 1 after N samples of constant f), and a sample with a rising edge
\* takes it to f mod 1 whatever it was.
C7_CyclePhase ==
    [][ (sampled' /\ v'.RampMode = RAMP_CYCLE) =>
          /\ ~rising' => dtc'.phase[0] = (dtc.phase[0] + in'.phaseInc) % One
          /\ rising' => dtc'.phase[0] = in'.phaseInc % One
      ]_vars

\* C8: in AttackDecay ramp mode with Gates output, channel 4 is 0 while the
\* envelope is in progress (phase below 0.999), is 8 exactly when phase[0] is
\* at least 0.999, is 8 on the sample that completes the envelope, and stays
\* 8 on every following sample without a rising edge.
C8_EndOfRampGate ==
    [][ (sampled' /\ v'.RampMode = RAMP_AD /\ v'.OutputMode = OUT_GATES) =>
          /\ out'[4] = (IF dtc'.phase[0] >= 999 THEN 8 * One ELSE 0)
          /\ (dtc'.envelope_running /\ dtc'.phase[0] < 999) => out'[4] = 0
          /\ ((dtc.envelope_running \/ rising') /\ ~dtc'.envelope_running)
                => out'[4] = 8 * One
          /\ (sampled /\ out[4] = 8 * One /\ ~rising') => out'[4] = 8 * One
      ]_vars

\* the envelope has completed and a gate-low sample reports channel 4 high
C8_Witness ==
    /\ sampled
    /\ v.RampMode = RAMP_AD
    /\ v.OutputMode = OUT_GATES
    /\ TrigConnected
    /\ ~gate
    /\ ~dtc.envelope_running
    /\ dtc.phase[0] = One
    /\ out[4] = 8 * One

(***************************************************************************)
(* Specification of the rendering chain: every ramp mode and output mode,  *)
(* smoothness and shift driven over their whole range by their CV inputs   *)
(* (lowpass and wavefold regimes), for a bounded number of samples.        *)
(***************************************************************************)
MaxSamples == 4

RenderIncs == {100}
RenderSmoothCVs == {-5000, 5000}
RenderShiftCVs == {-5000, 5000}

RenderParamSpace ==
    { [DefaultParams EXCEPT !.RampMode = rm, !.OutputMode = om,
                            !.SmoothInput = 1, !.ShiftInput = 1] :
        rm \in RampModes, om \in OutputModes }

InitRender == InitWith(MaxSamples)

RenderSampleStep ==
    \E phaseInc \in RenderIncs,
       cvSmooth \in BusValues(v.SmoothInput, RenderSmoothCVs),
       cvShift \in BusValues(v.ShiftInput, RenderShiftCVs) :
        Sample(0, phaseInc, 0, 0, cvSmooth, cvShift)

RenderParamStep == \E p \in RenderParamSpace : SetParams(p)

NextRender == Construct \/ RenderParamStep \/ RenderSampleStep

SpecRender == InitRender /\ [][NextRender]_vars

\* C9: every channel value of a sample lies within the documented output
\* scale, [-5, +5] in Cycle ramp mode and [0, 8] in the envelope ramp modes.
C9_OutputScale ==
    sampled =>
        \A k \in 1..4 :
            IF v.RampMode = RAMP_CYCLE
            THEN out[k] >= -5 * One /\ out[k] <= 5 * One
            ELSE out[k] >= 0 /\ out[k] <= 8 * One

\* C10: in SlopePhase output mode, whenever the effective shift is 0 the four
\* channel values of a sample are equal.
C10_Unison ==
    (sampled /\ v.OutputMode = OUT_SLOPE_PHASE /\ eff.shift = 0)
        => (out[1] = out[2] /\ out[2] = out[3] /\ out[3] = out[4])

(***************************************************************************)
(* Two instances of the algorithm.  Each has its own parameters v and its  *)
(* own DTC memory; `static float lpState[4]' of step() is one array of the *)
(* plug-in.  The variables v and dtc are those of the instance the host is *)
(* running; peer holds the other one.                                      *)
(***************************************************************************)

\* the host returns from step() of one instance and calls step() of the
\* other: `dtc = alg->dtc' selects the other memory, lpState stays
Switch ==
    /\ frame = 0
    /\ peer' = [v |-> v, dtc |-> dtc, lp |-> lpState]
    /\ v' = peer.v
    /\ dtc' = peer.dtc
    /\ sampled' = FALSE
    /\ in' = NoInput
    /\ eff' = NoEff
    /\ gate' = peer.dtc.gate_high
    /\ rising' = FALSE
    /\ ramp' = 0
    /\ out' = NoOut
    /\ apexRelease' = FALSE
    /\ before0' = 0
    /\ UNCHANGED <<lpState, frame, budget, calc>>

InitTwo == InitWith(MaxSamples)

NextTwo == Switch \/ RenderParamStep \/ RenderSampleStep

SpecTwo == InitTwo /\ [][NextTwo]_vars

\* C11: the blocks of one instance change no state that the other instance
\* reads: when the host comes back to an instance, the lowpass states are the
\* ones this instance left (its phases, gate history, envelope flag and
\* smoothed parameters are in its own DTC memory and come back with it).
C11_NoInterference ==
    [][peer' # peer => (lpState = peer.lp /\ dtc' = peer.dtc)]_vars

(***************************************************************************)
(* Construction and parameter changes (checked under SpecRender and Spec)  *)
(***************************************************************************)

\* C12: right after construct(), the first one or a later one, the whole
\* engine state is initial: phases 0, gate history false, envelope not
\* running, smoothed parameters 0.5 and the four lowpass states 0.
C12_ConstructResetsAll ==
    [][Construct => (dtc' = InitDTC /\ lpState' = [ch \in 0..3 |-> 0])]_vars

\* C13 as stated: a change of the output mode between two blocks resets the
\* engine state to its initial values before the next sample is rendered.
C13_ResetOnOutputMode ==
    [][(v'.OutputMode # v.OutputMode /\ ~Construct) => dtc' = InitDTC]_vars

\* C13: a change of the parameters between two blocks, the output mode
\* included, leaves the engine state as it is: phases, gate history,
\* envelope flag, smoothed parameters and lowpass states; only construct()
\* writes initial values.
C13_ParamChangeKeepsState ==
    [][(v' # v /\ ~Construct) => UNCHANGED <<dtc, lpState>>]_vars

\* the output mode has left Frequency while phase[1], which only Frequency
\* output writes, is under way, and no sample has been rendered since
C13_Witness ==
    /\ ~sampled
    /\ v.OutputMode = OUT_GATES
    /\ dtc.phase[1] > 0

(***************************************************************************)
(* Frequency output (checked under Spec)                                   *)
(***************************************************************************)

\* ratio[ratioSet][ch] of the sample just processed
RatioOf(ch) == ratios[RatioSet(eff'.shift) + 1][ch + 1]

\* C14: in Frequency output, a sample without a rising edge advances every
\* phase[ch] by exactly increment * ratio[ratioSet][ch] modulo 1 (channel 0,
\* of ratio 1, by one increment), and a sample with a rising edge takes every
\* phase[ch] to that increment modulo 1 (reset to 0, then advanced).
C14_FrequencyPhases ==
    [][ (sampled' /\ v'.OutputMode = OUT_FREQUENCY) =>
          \A ch \in 0..3 :
            dtc'.phase[ch] =
              ((IF rising' THEN 0 ELSE dtc.phase[ch])
                  + Mul(in'.phaseInc, RatioOf(ch))) % One
      ]_vars

(***************************************************************************)
(* Helper functions evaluated alone: the engine stays as constructed, calc *)
(* holds the argument and, once evaluated, the result.                     *)
(***************************************************************************)

engineVars == <<v, dtc, lpState, frame, budget, sampled, in, eff, gate,
                rising, ramp, out, apexRelease, peer, before0>>

\* pos = shift * 3.0f of every shift in [0, 1] whose pos is a multiple of
\* 0.001: shift 1/3 is pos 1.0 and shift 2/3 is pos 2.0
InitGains ==
    /\ EngineInit(0)
    /\ calc \in { [fn |-> "gains", pos |-> p, done |-> FALSE,
                   gain |-> <<0, 0, 0, 0>>] : p \in 0..(3 * One) }

EvalGains ==
    /\ calc.fn = "gains"
    /\ ~calc.done
    /\ calc' = [calc EXCEPT !.done = TRUE, !.gain = AmplitudeGains(calc.pos)]
    /\ UNCHANGED engineVars

NextGains == EvalGains

SpecGains == InitGains /\ [][NextGains]_vars

\* C15: in Amplitude output the four gains are never negative, and at shift
\* 0, 1/3, 2/3 and 1 they sum to exactly 1 with the whole signal on one
\* channel: channel 1 at shift 0, 2 at 1/3, 3 at 2/3 and 4 at shift 1.
C15_AmplitudeGains ==
    calc.done =>
        /\ \A k \in 1..4 : calc.gain[k] >= 0
        /\ \A n \in 0..3 :
             calc.pos = n * One =>
                /\ calc.gain[1] + calc.gain[2] + calc.gain[3] + calc.gain[4]
                      = One
                /\ \A k \in 1..4 :
                     calc.gain[k] = (IF k = n + 1 THEN One ELSE 0)

\* shift 1/3 evaluated: everything on channel 2
C15_Witness ==
    /\ calc.fn = "gains"
    /\ calc.done
    /\ calc.pos = One
    /\ calc.gain = <<0, One, 0, 0>>

(***************************************************************************)
(* Specification of the parameter smoothing: the four knobs move between   *)
(* 0 %, 50 % and 100 % from block to block, shape and smoothness one way,  *)
(* slope and shift the other way, and the shape CV input is connected;     *)
(* AttackDecay without trigger, so that phase[0] rests at 0.               *)
(***************************************************************************)

KnobSteps == {0, 50, 100}
SmoothShapeCVs == {-2000, 0, 3000}

SmoothParamSpace ==
    { [DefaultParams EXCEPT !.RampMode = RAMP_AD, !.OutputMode = OUT_GATES,
                            !.ShapeInput = 1,
                            !.Shape = a, !.Slope = 100 - a,
                            !.Smoothness = a, !.Shift = 100 - a] :
        a \in KnobSteps }

InitSmooth == InitWith(-1)

\* the blocks rendered once the host has set the parameters of the instance
SmoothSampleStep ==
    /\ calc = NoCalc
    /\ v \in SmoothParamSpace
    /\ \E cvShape \in SmoothShapeCVs : Sample(0, 100, cvShape, 0, 0, 0)

SmoothParamStep == calc = NoCalc /\ \E p \in SmoothParamSpace : SetParams(p)

\* smoothParam() alone, on every current value of [0, 1] and targets across
\* [0, 1], instead of running the engine
SmoothTargets == {0, 125, 250, 375, 500, 625, 750, 875, 1000}

EvalSmooth ==
    /\ calc = NoCalc
    /\ v = DefaultParams
    /\ ~sampled
    /\ \E c \in 0..One, t \in SmoothTargets :
          calc' = [fn |-> "smooth", current |-> c, target |-> t,
                   val |-> smoothParam(c, t, smoothCoeff)]
    /\ UNCHANGED engineVars

NextSmooth == SmoothParamStep \/ SmoothSampleStep \/ EvalSmooth

SpecSmooth == InitSmooth /\ [][NextSmooth]_vars

\* one smoothing step from c to c2 under target t: not past the target, not
\* away from it
Toward(c, c2, t) ==
    /\ c <= t => (c <= c2 /\ c2 <= t)
    /\ c >= t => (t <= c2 /\ c2 <= c)

\* C16: a smoothing step never moves a smoothed parameter past its target
\* nor away from it (the distance to a constant target never increases and
\* the sign of target - smoothed never flips), and the smoothed parameter
\* stays in [0, 1]: on every sample of the engine, and for smoothParam()
\* alone on every current value and target of [0, 1].
C16_SmoothMonotone ==
    /\ [][ sampled' =>
          /\ Toward(dtc.smooth_shape, dtc'.smooth_shape, v.Shape * 10)
          /\ Toward(dtc.smooth_slope, dtc'.smooth_slope, v.Slope * 10)
          /\ Toward(dtc.smooth_smoothness, dtc'.smooth_smoothness,
                    v.Smoothness * 10)
          /\ Toward(dtc.smooth_shift, dtc'.smooth_shift, v.Shift * 10)
          /\ \A c \in {dtc'.smooth_shape, dtc'.smooth_slope,
                       dtc'.smooth_smoothness, dtc'.smooth_shift} :
                0 <= c /\ c <= One
      ]_vars
    /\ [](calc.fn = "smooth" =>
            /\ Toward(calc.current, calc.val, calc.target)
            /\ 0 <= calc.val /\ calc.val <= One)

\* the shape knob went up and then down to 0: the smoothed shape is on its
\* way down from above 0.5 while the smoothed slope comes up from below
C16_Witness ==
    /\ sampled
    /\ v.Shape = 0
    /\ dtc.smooth_shape > 500
    /\ dtc.smooth_shape < 800
    /\ dtc.smooth_slope < 500

\* C17: in Frequency output phase[1..3] follow the ramp-mode rules of
\* phase[0] with ratio-scaled increments.  AttackDecay: without a rising edge
\* a phase never goes back (it ends clamped at 1.0) and a phase at 0, whose
\* envelope has not been started, stays at 0.  Cycle: advance and wrap modulo
\* 1.  AttackRelease with a trigger connected: while the gate is high the
\* phase is at most 0.5.
C17_ChannelsFollowRampMode ==
    [][ (sampled' /\ v'.OutputMode = OUT_FREQUENCY) =>
          \A ch \in 1..3 :
            /\ (v'.RampMode = RAMP_AD /\ ~rising') =>
                  /\ dtc'.phase[ch] >= dtc.phase[ch]
                  /\ dtc.phase[ch] = 0 => dtc'.phase[ch] = 0
            /\ v'.RampMode = RAMP_CYCLE =>
                  dtc'.phase[ch] =
                    ((IF rising' THEN 0 ELSE dtc.phase[ch])
                        + Mul(in'.phaseInc, RatioOf(ch))) % One
            /\ (v'.RampMode = RAMP_AR /\ TrigConnected /\ gate') =>
                  dtc'.phase[ch] <= 500
      ]_vars

(***************************************************************************)
(* Smoothing and CV modulation (checked under SpecSmooth)                  *)
(***************************************************************************)

\* the value a sample renders with, as the code computes it: the smoothed
\* value s and, when the input is connected, a tenth of the CV (attenuverter
\* at 100 %) added to it, clamped to [0, 1]
Rendered(s, conn, cv) ==
    IF conn > 0
    THEN IF s + cv \div 10 < 0 THEN 0
         ELSE IF s + cv \div 10 > One THEN One ELSE s + cv \div 10
    ELSE s

\* C18 as stated: the CV is part of the target the smoother advances to, so
\* the shape a sample renders with is within coeff * |target - previous
\* smoothed value| of the previous smoothed value, whatever the CV does.
C18_CVSmoothed ==
    [][ (sampled' /\ v.ShapeInput > 0) =>
          LET target == clamp(v.Shape * 10 + in'.shape \div 10, 0, One)
          IN  Abs(eff'.shape - dtc.smooth_shape)
                <= Mul(smoothCoeff, Abs(target - dtc.smooth_shape))
      ]_vars

\* C18: the stored smoothed values advance one step toward the knob targets
\* (no CV in the target), and a sample renders with the smoothed value plus,
\* for a connected input, the unsmoothed CV term, clamped to [0, 1]: a CV
\* jump reaches the rendered parameter in full in the same sample, only a
\* knob change is limited to coeff * |target - previous smoothed value|.
C18_SmoothThenModulate ==
    [][ sampled' =>
          /\ Abs(dtc'.smooth_shape - dtc.smooth_shape)
               <= Mul(smoothCoeff, Abs(v.Shape * 10 - dtc.smooth_shape))
          /\ Abs(dtc'.smooth_slope - dtc.smooth_slope)
               <= Mul(smoothCoeff, Abs(v.Slope * 10 - dtc.smooth_slope))
          /\ Abs(dtc'.smooth_smoothness - dtc.smooth_smoothness)
               <= Mul(smoothCoeff,
                      Abs(v.Smoothness * 10 - dtc.smooth_smoothness))
          /\ Abs(dtc'.smooth_shift - dtc.smooth_shift)
               <= Mul(smoothCoeff, Abs(v.Shift * 10 - dtc.smooth_shift))
          /\ eff'.shape = Rendered(dtc'.smooth_shape, v.ShapeInput, in'.shape)
          /\ eff'.slope = Rendered(dtc'.smooth_slope, v.SlopeInput, in'.slope)
          /\ eff'.smoothness =
               Rendered(dtc'.smooth_smoothness, v.SmoothInput, in'.smooth)
          /\ eff'.shift = Rendered(dtc'.smooth_shift, v.ShiftInput, in'.shift)
      ]_vars

\* a sample whose shape CV is at 3 V while the smoothed shape is on its way
\* between knob positions: rendered with the smoothed shape plus 0.3
C18_Witness ==
    /\ sampled
    /\ in.shape = 3000
    /\ dtc.smooth_shape # 500
    /\ eff.shape = dtc.smooth_shape + 300

(***************************************************************************)
(* The two kinds of loop of a sample, run alone and counted: the wavefold  *)
(* loop of applySmoothness on what the slope/shape chain feeds it, and the *)
(* phase-wrap loop.  A run stops after LoopFuel iterations at the latest   *)
(* and says whether the loop had exited by then.                           *)
(***************************************************************************)

LoopFuel == 8

\* the fold loop from `folded', n iterations done so far
RECURSIVE FoldRun(_, _)
FoldRun(folded, n) ==
    IF folded > One \/ folded < -One
    THEN IF n = LoopFuel
         THEN [val |-> folded, iters |-> n, exited |-> FALSE]
         ELSE FoldRun(FoldBody(folded), n + 1)
    ELSE [val |-> folded, iters |-> n, exited |-> TRUE]

\* the wrap loop `while (p >= 1.0f) p -= 1.0f' from p
RECURSIVE WrapRun(_, _)
WrapRun(p, n) ==
    IF p >= One
    THEN IF n = LoopFuel
         THEN [val |-> p, iters |-> n, exited |-> FALSE]
         ELSE WrapRun(p - One, n + 1)
    ELSE [val |-> p, iters |-> n, exited |-> TRUE]

FoldPhases == { 50 * k : k \in 0..20 }
FoldSlopes == {0, 250, 500, 750, 1000}
FoldShapes == {0, 500, 1000}
FoldSmoothness == { 500 + 50 * k : k \in 0..10 }
\* phase + increment before the wrap: up to 1 + 1.3 * 4 in Spec
WrapArgs == 0..(6 * One)

NoRun == [val |-> 0, iters |-> 0, exited |-> FALSE]

InitLoops ==
    /\ EngineInit(0)
    /\ calc \in
         { [fn |-> "fold", phase |-> p, slope |-> sl, shape |-> sh,
            smoothness |-> sm, x |-> 0, done |-> FALSE, run |-> NoRun] :
             p \in FoldPhases, sl \in FoldSlopes, sh \in FoldShapes,
             sm \in FoldSmoothness }
         \cup
         { [fn |-> "wrap", arg |-> a, done |-> FALSE, run |-> NoRun] :
             a \in WrapArgs }

\* the wavefold branch of applySmoothness on x = applyShape(applySlope(..))
EvalFold ==
    /\ calc.fn = "fold"
    /\ ~calc.done
    /\ LET x == applyShape(applySlope(calc.phase, calc.slope), calc.shape)
           foldAmount == (calc.smoothness - 500) * 2
           gain == One + foldAmount * 3
       IN  calc' = [calc EXCEPT !.done = TRUE, !.x = x,
                       !.run = IF foldAmount > 0
                               THEN FoldRun(Mul(x, gain), 0)
                               ELSE [val |-> x, iters |-> 0, exited |-> TRUE]]
    /\ UNCHANGED engineVars

EvalWrap ==
    /\ calc.fn = "wrap"
    /\ ~calc.done
    /\ calc' = [calc EXCEPT !.done = TRUE, !.run = WrapRun(calc.arg, 0)]
    /\ UNCHANGED engineVars

NextLoops == EvalFold \/ EvalWrap

SpecLoops == InitLoops /\ [][NextLoops]_vars

C20_FreeRunAR ==
    [][ (sampled' /\ v'.RampMode = RAMP_AR /\ ~TrigConnected) =>
          dtc'.phase[0] = (dtc.phase[0] + in'.phaseInc) % One
      ]_vars

(***************************************************************************)
(* applySlope and applyShape evaluated alone                               *)
(***************************************************************************)

\* slopes at which every phase of [0, 1] is evaluated; every slope of
\* [0, 1] is evaluated at phase 0, at phase = slope and at phase 1
SlopeGrid == {0, 1, 2, 250, 500, 750, 998, 999, 1000}

SlopeInputs ==
    { [fn |-> "slope", phase |-> p, slope |-> s, done |-> FALSE, val |-> 0] :
        p \in 0..One, s \in SlopeGrid }
    \cup
    UNION { { [fn |-> "slope", phase |-> p, slope |-> s, done |-> FALSE,
                val |-> 0] : p \in {0, s, One} } : s \in 0..One }

EvalSlope ==
    /\ calc.fn = "slope"
    /\ ~calc.done
    /\ calc' = [calc EXCEPT !.done = TRUE,
                            !.val = applySlope(calc.phase, calc.slope)]
    /\ UNCHANGED engineVars

\* C21: for every slope in [0.001, 0.999], applySlope(0, slope) = 0,
\* applySlope(slope, slope) = 1 and applySlope(1, slope) = 0; for every
\* phase in [0, 1] and every slope, clamped or not, the result is in [0, 1].
C21_SlopeEndpoints ==
    (calc.fn = "slope" /\ calc.done) =>
        /\ 0 <= calc.val /\ calc.val <= One
        /\ (1 <= calc.slope /\ calc.slope <= 999) =>
              /\ calc.phase = 0 => calc.val = 0
              /\ calc.phase = calc.slope => calc.val = One
              /\ calc.phase = One => calc.val = 0

\* the apex of an asymmetric ramp: phase = slope = 0.25 gives 1
C21_Witness ==
    /\ calc.fn = "slope"
    /\ calc.done
    /\ calc.slope = 250
    /\ calc.phase = 250
    /\ calc.val = One

\* shapes at which every x of [0, 1] is evaluated together with the next x
\* of the grid; at shape 0.5 x also runs outside [0, 1]
ShapeGrid == { 50 * k : k \in 0..20 } \cup {1, 499, 501, 999}

ShapeInputs ==
    { [fn |-> "shape", x |-> x, shape |-> sh, done |-> FALSE, val |-> 0,
       next |-> 0] : x \in 0..One, sh \in ShapeGrid }
    \cup
    { [fn |-> "shape", x |-> x, shape |-> 500, done |-> FALSE, val |-> 0,
       next |-> 0] : x \in (-One)..(2 * One) }

EvalShape ==
    /\ calc.fn = "shape"
    /\ ~calc.done
    /\ calc' = [calc EXCEPT !.done = TRUE,
                            !.val = applyShape(calc.x, calc.shape),
                            !.next = applyShape(calc.x + 1, calc.shape)]
    /\ UNCHANGED engineVars

InitShaping == EngineInit(0) /\ calc \in SlopeInputs \cup ShapeInputs

NextShaping == EvalSlope \/ EvalShape

SpecShaping == InitShaping /\ [][NextShaping]_vars

\* C22: applyShape(x, 0.5) = x for every x; for every shape in [0, 1]
\* applyShape(0, shape) = 0, applyShape(1, shape) = 1 and applyShape is
\* non-decreasing in x over [0, 1] (from each x to the next x of the grid,
\* hence between any two).
C22_ShapeIdentityMonotone ==
    (calc.fn = "shape" /\ calc.done) =>
        /\ calc.shape = 500 => (calc.val = calc.x /\ calc.next = calc.x + 1)
        /\ calc.x = 0 => calc.val = 0
        /\ calc.x = One => calc.val = One
        /\ (0 <= calc.x /\ calc.x < One) => calc.val <= calc.next

\* the logarithmic curve at full amount: 0.5 goes to 1 - 0.5^3 = 0.875
C22_Witness ==
    /\ calc.fn = "shape"
    /\ calc.done
    /\ calc.shape = One
    /\ calc.x = 500
    /\ calc.val = 875
    /\ calc.next > calc.val

(***************************************************************************)
(* Frame of a sample and AttackRelease with trigger (checked under Spec)   *)
(***************************************************************************)

\* C23: in Gates, Amplitude and SlopePhase output a sample leaves phase[1],
\* phase[2] and phase[3] as they were, in every ramp mode and also on a
\* rising edge.
C23_PhaseFrame ==
    [][ (sampled' /\ v'.OutputMode # OUT_FREQUENCY) =>
          \A ch \in 1..3 : dtc'.phase[ch] = dtc.phase[ch]
      ]_vars

\* a rising edge outside Frequency output has just been processed while
\* phase[1..3], left under way by Frequency output, are still where they were
C23_Witness ==
    /\ sampled
    /\ rising
    /\ v.OutputMode # OUT_FREQUENCY
    /\ dtc.phase[1] > 0
    /\ dtc.phase[2] > 0
    /\ dtc.phase[3] > 0

\* C24: in AttackRelease ramp mode with the trigger connected and an output
\* mode other than Frequency, no sample takes phase[0] back to 0: a phase
\* below 0.5 does not decrease, a phase that has reached 0.5 stays in
\* [0.5, 1.0], and a gate-high sample that finds it there, a completed
\* release at 1.0 included, puts it at 0.5, the apex of the ramp.
C24_NoAttackReplay ==
    [][ ( /\ sampled'
          /\ v'.RampMode = RAMP_AR
          /\ TrigConnected
          /\ v'.OutputMode # OUT_FREQUENCY ) =>
          /\ dtc.phase[0] < 500 => dtc'.phase[0] >= dtc.phase[0]
          /\ dtc.phase[0] >= 500 =>
                /\ 500 <= dtc'.phase[0] /\ dtc'.phase[0] <= One
                /\ gate' => (dtc'.phase[0] = 500 /\ ramp' = One)
      ]_vars

\* the first gate-high sample after a completed release: phase[0] was 1.0
\* and is 0.5, the ramp is at its apex
C24_Witness ==
    /\ sampled
    /\ v.RampMode = RAMP_AR
    /\ TrigConnected
    /\ v.OutputMode # OUT_FREQUENCY
    /\ rising
    /\ before0 = One
    /\ dtc.phase[0] = 500
    /\ ramp = One

=============================================================================
